---- MODULE Spec2Model ----
(***************************************************************************)
(* Tabular configuration compiler: src/utils/excel_to_code.py              *)
(* (ExcelToCodeConverter) and src/utils/config_manager.py (ConfigManager). *)
(*                                                                         *)
(* The state is the two directories (source spreadsheets, generated        *)
(* artifacts), the sidecar record file convert_times.json, the converter's *)
(* two in-memory timestamp maps and the manager's two process-local maps.  *)
(* Every handler is one action; the files are also changed out-of-band by  *)
(* the environment (a human editing or deleting them, a process restart).  *)
(***************************************************************************)
EXTENDS Integers, Sequences, FiniteSets, TLC

\* ------------------------------------------------------------------ bounds
\* Timestamps are drawn from 1..MaxTime; every file write takes a fresh one.
MaxTime == 5
\* The same bound for the runs in which two configs live side by side.
MaxTimeTwo == 4
\* The same bound for the runs in which two threads interleave.
MaxTimeThreads == 4
\* The longest string key and string value handed to the code generator.
MaxLen == 2
\* The most data rows of a sheet, and the time bound of the runs on sheets.
MaxRows == 2
MaxTimeSheet == 3
MaxTimeStartup == 3
\* The longest text of a list cell, of a number cell and of a json cell.
MaxCell == 5
MaxNumber == 4
MaxJson == 4

\* ------------------------------------------------------------- value space
Configs == {"a", "b"}
\* Directory listing order of glob("*.xlsx") / glob("*_config.py").
ConfigOrder == <<"a", "b">>

DESCRIBE_SHEET_NAME == ".DESC"
Sheets == {"s1", "s2"}

\* Python's None, the content of a missing file, and the missing record file.
None == [none |-> TRUE]
NoContent == [nocontent |-> TRUE]
NoFile == [nofile |-> TRUE]

\* The element of a one-element set. Only({e(r) : r \in {v}}) is e of the
\* local variable r = v, with v computed once.
Only(set) == CHOOSE y \in set : TRUE

\* A partial map lookup with default, dict.get(key, default).
Get(d, k, default) == IF k \in DOMAIN d THEN d[k] ELSE default

\* dict[k] = v on a partial map.
Put(d, k, v) == [x \in (DOMAIN d) \cup {k} |-> IF x = k THEN v ELSE d[x]]

EmptyMap == <<>>

\* Compiled data of a sheet: key -> attribute mapping (abstracted to a tag).
D1 == [k \in {"k1"} |-> [attr |-> "v1"]]
D2 == [k \in {"k1"} |-> [attr |-> "v2"]]

\* A sheet of a source file, as far as compile looks at it: the number of
\* errors _validate_sheet reports for it and what _convert_sheet_to_dict
\* yields for it (the empty mapping when every data row has a blank key).
GoodSheet(d) == [errors |-> 0, data |-> d]
BlankSheet == [errors |-> 0, data |-> EmptyMap]

\* A sheet without errors one of whose texts holds a double quote.
QuoteSheet(d) == [errors |-> 0, data |-> d, quote |-> TRUE]

\* A source file with two data sheets and the reserved instructions sheet
\* written by create_template_excel: its third row holds no type tags, so it
\* would not pass _validate_sheet.
Workbook(x1, x2) ==
  [s \in Sheets \cup {DESCRIBE_SHEET_NAME} |->
     IF s = "s1" THEN x1
     ELSE IF s = "s2" THEN x2
     ELSE [errors |-> 1, data |-> EmptyMap]]

\* The source contents a human may save.
Good1 == Workbook(GoodSheet(D1), GoodSheet(D1))
Good2 == Workbook(GoodSheet(D2), GoodSheet(D1))
Mixed == Workbook(GoodSheet(D2), [errors |-> 1, data |-> D1])
Hollow == Workbook(BlankSheet, BlankSheet)
Quoted == Workbook(QuoteSheet(D2), GoodSheet(D1))
SourceContents ==
  {Good1, Good2, Mixed, Workbook(GoodSheet(D1), BlankSheet), Hollow}

AbsentFile == [exists |-> FALSE, mtime |-> 0, content |-> NoContent]
File(t, x) == [exists |-> TRUE, mtime |-> t, content |-> x]

\* An artifact edited by hand: it executes (ok) or raises when executed.
HandArtifact(ok) ==
  [by |-> "hand", src |-> NoContent, ok |-> ok, sheets |-> [s \in {"s1"} |-> [k \in {"k1"} |-> [attr |-> "vh"]]],
   generated_at |-> 0]

NoEvents == [attempted |-> {}, invalid |-> {}, written |-> {}, loadexec |-> {}]
Ev(field, c) == [NoEvents EXCEPT ![field] = {c}]
Join(e, f) ==
  [attempted |-> e.attempted \cup f.attempted,
   invalid |-> e.invalid \cup f.invalid,
   written |-> e.written \cup f.written,
   loadexec |-> e.loadexec \cup f.loadexec]

\* A returned bool. Every return value is a record or a mapping, so that
\* any two of them can be compared.
Bool(b) == [ok |-> b]

\* The result of a call: the state it leaves, its return value and what it did.
Result(S, ret, ev) == [st |-> S, ret |-> ret, ev |-> ev]

\* The outcome of a call that ended in an exception instead of a value.
Raised == [raised |-> TRUE]

\* try: <r> except Exception: return fallback. The state and the events are
\* the ones at the point of the raise.
Caught(result, fallback) ==
  Only({IF r.ret = Raised THEN Result(r.st, fallback, r.ev) ELSE r :
          r \in {result}})

\* ------------------------------------------------------------------- state
VARIABLES
  excel,                \* excel_dir: config -> source file
  code,                 \* code_dir: config -> generated artifact file
  excel_modified_time,  \* ExcelToCodeConverter.excel_modified_time
  module_modified_time, \* ExcelToCodeConverter.module_modified_time
  convert_times,        \* dev/data/convert_times.json
  loaded_modules,       \* ConfigManager.loaded_modules
  last_modified,        \* ConfigManager.last_modified
  clock,                \* wall clock, the mtime source
  last,                 \* the most recent call: operation, argument, result
  threads               \* thread -> the call it is in: position and locals

vars == <<excel, code, excel_modified_time, module_modified_time, convert_times,
          loaded_modules, last_modified, clock, last, threads>>

Cur ==
  [excel |-> excel, code |-> code, emt |-> excel_modified_time,
   mmt |-> module_modified_time, tfile |-> convert_times,
   loaded |-> loaded_modules, lastmod |-> last_modified, clock |-> clock]

\* ------------------------------------------------- ExcelToCodeConverter
\* Faulty variant of SaveModifiedTimes: the artifact times are not saved.
SaveModifiedTimes_SourceOnly(emt, mmt) ==
  [c \in DOMAIN emt |-> [excel |-> emt[c], module |-> 0]]

\* _save_modified_times: one entry per config of excel_modified_time, the
\* module time defaulting to 0.
SaveModifiedTimes(emt, mmt) ==
  [c \in DOMAIN emt |-> [excel |-> emt[c], module |-> Get(mmt, c, 0)]]

\* _load_modified_times: nothing is read when the file is missing or holds
\* no entry; otherwise both maps get every config of the file.
LoadModifiedTimes(tfile) ==
  IF tfile = NoFile \/ DOMAIN tfile = {}
  THEN [emt |-> EmptyMap, mmt |-> EmptyMap]
  ELSE [emt |-> [c \in DOMAIN tfile |-> tfile[c].excel],
        mmt |-> [c \in DOMAIN tfile |-> tfile[c].module]]

\* Faulty variant of ValidateExcelFile: the errors of the sheets are dropped, only a
\* file without any valid sheet is in error.
ValidateExcelFile_FileLevelOnly(content) ==
  LET checked == (DOMAIN content) \ {DESCRIBE_SHEET_NAME}
      valid_sheets == Cardinality({s \in checked : content[s].errors = 0})
  IN  IF valid_sheets = 0 THEN {<<"file", "no valid sheet">>} ELSE {}

\* validate_excel_file: the errors of every sheet but the reserved one,
\* plus one error when no sheet is free of errors.
ValidateExcelFile(content) ==
  LET checked == (DOMAIN content) \ {DESCRIBE_SHEET_NAME}
      sheet_errors == {<<s, "error">> : s \in {x \in checked : content[x].errors > 0}}
      valid_sheets == Cardinality({s \in checked : content[s].errors = 0})
  IN  sheet_errors \cup (IF valid_sheets = 0 THEN {<<"file", "no valid sheet">>} ELSE {})

\* validate_data_before_conversion: false as soon as there is one error.
ValidateDataBeforeConversion(content) == ValidateExcelFile(content) = {}

\* The loop of convert_excel_file over the sheets: the reserved sheet and
\* the sheets that convert to an empty mapping are left out.
ConvertedData(content) ==
  LET kept == {s \in (DOMAIN content) \ {DESCRIBE_SHEET_NAME} :
                 content[s].data # EmptyMap}
  IN  [s \in kept |-> content[s].data]

\* _escape_string, lines 445-447: the literal written for a text that holds
\* a double quote ends at that quote, and the generated text is not Python;
\* any other text is written as a literal that reads back.
Executes(content, converted_data) ==
  \A s \in DOMAIN converted_data : "quote" \notin DOMAIN content[s]

\* _generate_python_code: a header that holds datetime.now() ("Generated
\* at:") and one constant per converted sheet. src is not part of the text:
\* it remembers the source content the data was converted from.
GeneratePythonCode(content, converted_data, now) ==
  [by |-> "compile", src |-> content, ok |-> Executes(content, converted_data),
   sheets |-> converted_data, generated_at |-> now]

\* convert_excel_file, line 123.
ExcelChanged(S, c) ==
  LET last_excel_mtime == Get(S.emt, c, 0)
  IN  last_excel_mtime = 0 \/ S.excel[c].mtime > last_excel_mtime

\* Faulty variant of ModuleChanged: a missing artifact does not count as changed.
ModuleChanged_IgnoresMissing(S, c) ==
  LET module_mtime == IF S.code[c].exists THEN S.code[c].mtime ELSE 0
      last_module_mtime == Get(S.mmt, c, 0)
  IN  module_mtime > last_module_mtime

\* convert_excel_file, lines 116 and 124.
ModuleChanged(S, c) ==
  LET module_mtime == IF S.code[c].exists THEN S.code[c].mtime ELSE 0
      last_module_mtime == Get(S.mmt, c, 0)
  IN  ~S.code[c].exists \/ module_mtime > last_module_mtime

\* Faulty variant of WriteArtifact: the artifact time recorded is the one read
\* before the artifact was written.
WriteArtifact_StaleModuleTime(S, c, artifact) ==
  LET now == S.clock + 1
      emt2 == Put(S.emt, c, S.excel[c].mtime)
      mmt2 == Put(S.mmt, c, IF S.code[c].exists THEN S.code[c].mtime ELSE 0)
  IN  [S EXCEPT !.code[c] = File(now, artifact),
                !.emt = emt2,
                !.mmt = mmt2,
                !.tfile = SaveModifiedTimes(emt2, mmt2),
                !.clock = now]

\* Faulty variant of WriteArtifact: the source time recorded is the time of
\* the write, not the one read when the compile started.
WriteArtifact_SourceTimeNow(S, c, artifact) ==
  LET now == S.clock + 1
      emt2 == Put(S.emt, c, now)
      mmt2 == Put(S.mmt, c, now)
  IN  [S EXCEPT !.code[c] = File(now, artifact),
                !.emt = emt2,
                !.mmt = mmt2,
                !.tfile = SaveModifiedTimes(emt2, mmt2),
                !.clock = now]

\* convert_excel_file, lines 158-166: write the artifact, then record both
\* timestamps and save the record file.
WriteArtifact(S, c, artifact) ==
  LET now == S.clock + 1
      emt2 == Put(S.emt, c, S.excel[c].mtime)
      mmt2 == Put(S.mmt, c, now)
  IN  [S EXCEPT !.code[c] = File(now, artifact),
                !.emt = emt2,
                !.mmt = mmt2,
                !.tfile = SaveModifiedTimes(emt2, mmt2),
                !.clock = now]

\* Faulty variant of ConvertExcelFile: the source time is recorded although the
\* validation failed.
ConvertExcelFile_RecordsOnFailure(S, c) ==
  IF ~S.excel[c].exists
  THEN Result(S, None, NoEvents)
  ELSE IF ~ExcelChanged(S, c) /\ ~ModuleChanged(S, c)
  THEN Result(S, None, NoEvents)
  ELSE IF ~ValidateDataBeforeConversion(S.excel[c].content)
  THEN Result([S EXCEPT !.emt = Put(S.emt, c, S.excel[c].mtime)], None,
              Join(Ev("attempted", c), Ev("invalid", c)))
  ELSE LET converted_data == ConvertedData(S.excel[c].content)
       IN  IF converted_data = EmptyMap
           THEN Result(S, None, Ev("attempted", c))
           ELSE Result(WriteArtifact(S, c,
                         GeneratePythonCode(S.excel[c].content, converted_data, S.clock)),
                       [path |-> c], Join(Ev("attempted", c), Ev("written", c)))

\* The body of the try block of convert_excel_file, lines 113-169: stat() of
\* a missing source raises, a failed validation raises ValueError.
ConvertExcelFileTry(S, c) ==
  IF ~S.excel[c].exists
  THEN Result(S, Raised, NoEvents)
  ELSE IF ~ExcelChanged(S, c) /\ ~ModuleChanged(S, c)
  THEN Result(S, None, NoEvents)
  ELSE IF ~ValidateDataBeforeConversion(S.excel[c].content)
  THEN Result(S, Raised, Join(Ev("attempted", c), Ev("invalid", c)))
  ELSE LET converted_data == ConvertedData(S.excel[c].content)
       IN  IF converted_data = EmptyMap
           THEN Result(S, None, Ev("attempted", c))
           ELSE Result(WriteArtifact(S, c,
                         GeneratePythonCode(S.excel[c].content, converted_data, S.clock)),
                       [path |-> c], Join(Ev("attempted", c), Ev("written", c)))

\* convert_excel_file(excel_path): returns the artifact's path or None; every
\* exception of the body is logged and turned into None (lines 171-173).
ConvertExcelFile(S, c) == Caught(ConvertExcelFileTry(S, c), None)

\* The loop of convert_all_excel_files: each file is converted on the state
\* the previous conversion left; the events are joined.
RECURSIVE ConvertEach(_, _, _)
ConvertEach(S, order, ev) ==
  IF order = <<>>
  THEN Result(S, None, ev)
  ELSE LET r == ConvertExcelFile(S, Head(order))
       IN  ConvertEach(r.st, Tail(order), Join(ev, r.ev))

\* convert_all_excel_files: convert every source file of the directory.
ConvertAllExcelFiles(S) ==
  LET r == ConvertEach(S, ConfigOrder, NoEvents)
  IN  Result(r.st, [c \in r.ev.written |-> [path |-> c]], r.ev)

\* --------------------------------------------------------- ConfigManager
\* Faulty variant of LoadSkipped: the artifact is compared with the recorded artifact
\* time of the converter instead of the last load of this process.
LoadSkipped_ByRecord(S, c) ==
  c \in DOMAIN S.mmt /\ S.code[c].mtime <= S.mmt[c]

\* Faulty variant of LoadSkipped: an artifact as old as the last load is loaded again.
LoadSkipped_Strict(S, c) ==
  c \in DOMAIN S.lastmod /\ S.code[c].mtime < S.lastmod[c]

\* _load_config_module, line 41: the load is skipped when the artifact is
\* not newer than the last load of this process.
LoadSkipped(S, c) ==
  c \in DOMAIN S.lastmod /\ S.code[c].mtime <= S.lastmod[c]

\* Faulty variant of LoadConfigModuleTry: the time of the artifact is stored before
\* exec_module runs, so that a load that raises still advances it.
LoadConfigModuleTry_TimeBeforeExec(S, c) ==
  IF ~S.code[c].exists
  THEN Result(S, Raised, NoEvents)
  ELSE IF LoadSkipped(S, c)
  THEN Result(S, Get(S.loaded, c, None), NoEvents)
  ELSE IF ~S.code[c].content.ok
  THEN Result([S EXCEPT !.lastmod = Put(S.lastmod, c, S.code[c].mtime)],
              Raised, Ev("loadexec", c))
  ELSE Result([S EXCEPT !.loaded = Put(S.loaded, c, S.code[c].content),
                        !.lastmod = Put(S.lastmod, c, S.code[c].mtime)],
              S.code[c].content, Ev("loadexec", c))

\* The body of the try block of _load_config_module, lines 40-55: stat() of
\* a missing artifact raises, and so does exec_module of one that is broken.
LoadConfigModuleTry(S, c) ==
  IF ~S.code[c].exists
  THEN Result(S, Raised, NoEvents)
  ELSE IF LoadSkipped(S, c)
  THEN Result(S, Get(S.loaded, c, None), NoEvents)
  ELSE IF ~S.code[c].content.ok
  THEN Result(S, Raised, Ev("loadexec", c))
  ELSE Result([S EXCEPT !.loaded = Put(S.loaded, c, S.code[c].content),
                        !.lastmod = Put(S.lastmod, c, S.code[c].mtime)],
              S.code[c].content, Ev("loadexec", c))

\* _load_config_module(code_file, config_name): the module, or None when the
\* body raised (lines 57-59).
LoadConfigModule(S, c) == Caught(LoadConfigModuleTry(S, c), None)

\* Faulty variant of SourceModified: only a source without record counts.
SourceModified_OnlyNew(S, c) ==
  /\ S.excel[c].exists
  /\ c \notin DOMAIN S.emt

\* reload_config, lines 67-70: the source exists and is new or newer than
\* the recorded source time.
SourceModified(S, c) ==
  /\ S.excel[c].exists
  /\ (c \notin DOMAIN S.emt \/ S.excel[c].mtime > S.emt[c])

\* The body of the try block of reload_config, lines 64-79; an exception of
\* a call it makes passes through it.
ReloadConfigTry(S, c, check_excel_modified) ==
  LET conv == IF check_excel_modified /\ SourceModified(S, c)
              THEN ConvertExcelFile(S, c)
              ELSE Result(S, None, NoEvents)
      S1 == conv.st
  IN  IF conv.ret = Raised
      THEN conv
      ELSE IF S1.code[c].exists
      THEN LET ld == LoadConfigModule(S1, c)
           IN  Result(ld.st, IF ld.ret = Raised THEN Raised ELSE Bool(ld.ret # None),
                      Join(conv.ev, ld.ev))
      ELSE Result(S1, Bool(FALSE), conv.ev)

\* reload_config(config_name, check_excel_modified): bool; false when the
\* body raised (lines 80-82).
ReloadConfig(S, c, check_excel_modified) ==
  Caught(ReloadConfigTry(S, c, check_excel_modified), Bool(FALSE))

\* get_config(config_name, auto_reload): the loaded module or None. It has
\* no handler of its own: an exception of reload_config would pass through.
GetConfig(S, c, auto_reload) ==
  Only({IF r.ret = Raised
        THEN r
        ELSE Result(r.st, Get(r.st.loaded, c, None), r.ev) :
          r \in {IF auto_reload
                 THEN ReloadConfig(S, c, TRUE)
                 ELSE Result(S, None, NoEvents)}})

\* get_config_sheet(config_name, sheet_name, auto_reload): the mapping of
\* the sheet or None (hasattr guards the getattr).
GetConfigSheet(S, c, s, auto_reload) ==
  Only({IF r.ret = Raised \/ r.ret = None
        THEN r
        ELSE Result(r.st, Get(r.ret.sheets, s, None), r.ev) :
          r \in {GetConfig(S, c, auto_reload)}})

\* Faulty variant of GetConfigValue: config_sheet.get(key) without the guard
\* "config_sheet and", an attribute access on None.
GetConfigValue_Unguarded(S, c, s, k, auto_reload) ==
  Only({IF r.ret = None
        THEN Result(r.st, Raised, r.ev)
        ELSE Result(r.st, Get(r.ret, k, None), r.ev) :
          r \in {GetConfigSheet(S, c, s, auto_reload)}})

\* get_config_value(config_name, sheet_name, key, auto_reload):
\* config_sheet and config_sheet.get(key).
GetConfigValue(S, c, s, k, auto_reload) ==
  Only({IF r.ret = Raised \/ r.ret = None \/ r.ret = EmptyMap
        THEN r
        ELSE Result(r.st, Get(r.ret, k, None), r.ev) :
          r \in {GetConfigSheet(S, c, s, auto_reload)}})

\* reload_all_configs(convert_all_excel_first, check_excel_modified): every
\* artifact of the directory is reloaded; the result keeps the successes.
ReloadOne(check_excel_modified, S, c) ==
  IF S.code[c].exists
  THEN ReloadConfig(S, c, check_excel_modified)
  ELSE Result(S, Bool(FALSE), NoEvents)

RECURSIVE ReloadEach(_, _, _, _, _)
ReloadEach(check_excel_modified, S, order, ev, results) ==
  IF order = <<>>
  THEN Result(S, results, ev)
  ELSE LET r == ReloadOne(check_excel_modified, S, Head(order))
       IN  ReloadEach(check_excel_modified, r.st, Tail(order), Join(ev, r.ev),
                      IF r.ret.ok THEN Put(results, Head(order), TRUE) ELSE results)

ReloadAllConfigs(S, convert_all_excel_first, check_excel_modified) ==
  LET conv == IF convert_all_excel_first
              THEN ConvertAllExcelFiles(S)
              ELSE Result(S, EmptyMap, NoEvents)
      listed == SelectSeq(ConfigOrder, LAMBDA c : conv.st.code[c].exists)
  IN  ReloadEach(check_excel_modified, conv.st, listed, conv.ev, EmptyMap)

\* Faulty variant of CheckExcelChanged: only a source without record counts.
CheckExcelChanged_OnlyUnrecorded(S, c) == Get(S.emt, c, 0) = 0

\* check_all_configs_up_to_date, lines 250-252: the three staleness tests
\* of a source file that has an artifact.
CheckExcelChanged(S, c) ==
  LET last_excel_mtime == Get(S.emt, c, 0)
  IN  last_excel_mtime = 0 \/ S.excel[c].mtime > last_excel_mtime

CheckModuleChanged(S, c) ==
  ~S.code[c].exists \/ S.code[c].mtime > Get(S.mmt, c, 0)

\* Faulty variant of CheckReloadNeeded: a config this process never loaded does not
\* count as pending.
CheckReloadNeeded_IgnoresUnloaded(S, c) ==
  S.code[c].mtime > Get(S.lastmod, c, 0) /\ c \in DOMAIN S.lastmod

CheckReloadNeeded(S, c) ==
  LET last_reload_time == Get(S.lastmod, c, 0)
  IN  last_reload_time = 0 \/ S.code[c].mtime > last_reload_time

\* check_all_configs_up_to_date, lines 215-265: the status of one source file.
SourceStatus(S, c) ==
  IF ~S.code[c].exists
  THEN "missing_code_file"
  ELSE IF ~CheckExcelChanged(S, c) /\ ~CheckModuleChanged(S, c) /\ ~CheckReloadNeeded(S, c)
  THEN "up_to_date"
  ELSE "outdated"

\* The first loop of check_all_configs_up_to_date, over the source files.
RECURSIVE CheckSources(_, _, _)
CheckSources(S, order, rep) ==
  IF order = <<>>
  THEN rep
  ELSE LET c == Head(order)
           status == SourceStatus(S, c)
           rep2 ==
             [rep EXCEPT
                !.details = Put(rep.details, c, status),
                !.all_up_to_date = rep.all_up_to_date /\ status = "up_to_date",
                !.up_to_date_configs =
                   IF status = "up_to_date" THEN rep.up_to_date_configs + 1
                   ELSE rep.up_to_date_configs,
                !.outdated_configs =
                   IF status = "outdated" THEN rep.outdated_configs \cup {c}
                   ELSE rep.outdated_configs,
                !.missing_code_files =
                   IF status = "missing_code_file" THEN rep.missing_code_files \cup {c}
                   ELSE rep.missing_code_files]
       IN  CheckSources(S, Tail(order), rep2)

\* Faulty variant of CheckOrphans: the orphans are listed but the aggregate is kept.
RECURSIVE CheckOrphans_KeepsAggregate(_, _, _)
CheckOrphans_KeepsAggregate(S, order, rep) ==
  IF order = <<>>
  THEN rep
  ELSE LET c == Head(order)
           rep2 ==
             IF ~S.excel[c].exists
             THEN [rep EXCEPT !.details = Put(rep.details, c, "orphaned_code_file")]
             ELSE rep
       IN  CheckOrphans_KeepsAggregate(S, Tail(order), rep2)

\* The second loop, over the artifacts: one without a source is orphaned.
RECURSIVE CheckOrphans(_, _, _)
CheckOrphans(S, order, rep) ==
  IF order = <<>>
  THEN rep
  ELSE LET c == Head(order)
           rep2 ==
             IF ~S.excel[c].exists
             THEN [rep EXCEPT !.details = Put(rep.details, c, "orphaned_code_file"),
                              !.all_up_to_date = FALSE]
             ELSE rep
       IN  CheckOrphans(S, Tail(order), rep2)

\* check_all_configs_up_to_date(): the report.
CheckAllConfigsUpToDate(S) ==
  LET excel_files == SelectSeq(ConfigOrder, LAMBDA c : S.excel[c].exists)
      code_files == SelectSeq(ConfigOrder, LAMBDA c : S.code[c].exists)
      rep == CheckSources(S, excel_files,
                          [all_up_to_date |-> TRUE,
                           total_configs |-> Len(excel_files),
                           up_to_date_configs |-> 0,
                           outdated_configs |-> {},
                           missing_code_files |-> {},
                           details |-> EmptyMap])
  IN  CheckOrphans(S, code_files, rep)

\* One pass of the loop of watch_and_reload: every source file that is new
\* or newer than its record is converted and then reloaded.
WatchOne(S, c) ==
  IF SourceModified(S, c)
  THEN LET conv == ConvertExcelFile(S, c)
           rel == ReloadConfig(conv.st, c, TRUE)
       IN  Result(rel.st, None, Join(conv.ev, rel.ev))
  ELSE Result(S, None, NoEvents)

RECURSIVE WatchEach(_, _, _)
WatchEach(S, order, ev) ==
  IF order = <<>>
  THEN Result(S, None, ev)
  ELSE LET r == WatchOne(S, Head(order))
       IN  WatchEach(r.st, Tail(order), Join(ev, r.ev))

WatchAndReload(S) ==
  WatchEach(S, SelectSeq(ConfigOrder, LAMBDA c : S.excel[c].exists), NoEvents)

\* ----------------------------------------------------------------- actions
\* What a step that is no call of the program remembers of the step before.
NoPrev == [restart |-> FALSE, written |-> {}, loaded |-> {}, up_to_date |-> {}]

\* The record of a call: its arguments, result and events, whether the step
\* before it was a restart or a call that wrote artifacts, the configs the
\* process had loaded when it was made, and the configs the step before
\* reported up to date when it was check_all_configs_up_to_date.
Call(op, cfg, args, r) ==
  [op |-> op, cfg |-> cfg, args |-> args, ret |-> r.ret, ev |-> r.ev,
   prev |-> [restart |-> last.op = "restart", written |-> last.ev.written,
             loaded |-> DOMAIN loaded_modules,
             up_to_date |-> IF last.op = "check"
                            THEN {c \in DOMAIN last.ret.details :
                                    last.ret.details[c] = "up_to_date"}
                            ELSE {}]]

Idle(op) ==
  [op |-> op, cfg |-> "-", args |-> <<>>, ret |-> None, ev |-> NoEvents,
   prev |-> NoPrev]

\* The state a call leaves becomes the state of the program.
Apply(T, op, cfg, args, result) ==
  \E r \in {result} :
    /\ r.st.clock <= T
    /\ excel' = r.st.excel
    /\ code' = r.st.code
    /\ excel_modified_time' = r.st.emt
    /\ module_modified_time' = r.st.mmt
    /\ convert_times' = r.st.tfile
    /\ loaded_modules' = r.st.loaded
    /\ last_modified' = r.st.lastmod
    /\ clock' = r.st.clock
    /\ last' = Call(op, cfg, args, r)
    /\ UNCHANGED threads

\* The threads of the process: request handlers and the poll loop.
Threads == {"t1", "t2"}

\* A thread that is in no call of the Registry.
IdleThread ==
  [pc |-> "idle", op |-> "-", cfg |-> "-", sheet |-> "-", after |-> "-",
   excel_mtime |-> 0, source_read |-> 0, artifact |-> NoContent, mtime |-> 0,
   module |-> NoContent]

Init ==
  /\ threads = [t \in Threads |-> IdleThread]
  /\ excel = [c \in Configs |-> AbsentFile]
  /\ code = [c \in Configs |-> AbsentFile]
  /\ excel_modified_time = EmptyMap
  /\ module_modified_time = EmptyMap
  /\ convert_times = NoFile
  /\ loaded_modules = EmptyMap
  /\ last_modified = EmptyMap
  /\ clock = 0
  /\ last = Idle("init")

\* A human saves the source file of c.
EditSource(T, c, x) ==
  /\ clock < T
  /\ excel' = [excel EXCEPT ![c] = File(clock + 1, x)]
  /\ clock' = clock + 1
  /\ last' = Idle("env")
  /\ UNCHANGED <<code, excel_modified_time, module_modified_time, convert_times,
                 loaded_modules, last_modified, threads>>

\* A human removes the source file of c.
RemoveSource(c) ==
  /\ excel[c].exists
  /\ excel' = [excel EXCEPT ![c] = AbsentFile]
  /\ last' = Idle("env")
  /\ UNCHANGED <<code, excel_modified_time, module_modified_time, convert_times,
                 loaded_modules, last_modified, clock, threads>>

\* A human edits the generated artifact of c by hand.
EditArtifact(T, c, ok) ==
  /\ clock < T
  /\ code[c].exists
  /\ code' = [code EXCEPT ![c] = File(clock + 1, HandArtifact(ok))]
  /\ clock' = clock + 1
  /\ last' = Idle("env")
  /\ UNCHANGED <<excel, excel_modified_time, module_modified_time, convert_times,
                 loaded_modules, last_modified, threads>>

\* A human removes the generated artifact of c.
RemoveArtifact(c) ==
  /\ code[c].exists
  /\ code' = [code EXCEPT ![c] = AbsentFile]
  /\ last' = Idle("env")
  /\ UNCHANGED <<excel, excel_modified_time, module_modified_time, convert_times,
                 loaded_modules, last_modified, clock, threads>>

\* The process restarts: ExcelToCodeConverter.__init__ reads the record
\* file, ConfigManager.__init__ starts with empty maps.
Restart ==
  /\ last.op # "restart"
  /\ excel_modified_time' = LoadModifiedTimes(convert_times).emt
  /\ module_modified_time' = LoadModifiedTimes(convert_times).mmt
  /\ loaded_modules' = EmptyMap
  /\ last_modified' = EmptyMap
  /\ last' = Idle("restart")
  /\ UNCHANGED <<excel, code, convert_times, clock, threads>>

Convert(T, c) ==
  /\ excel[c].exists
  /\ Apply(T, "convert", c, <<>>, ConvertExcelFile(Cur, c))

ConvertAll(T) ==
  /\ clock <= T
  /\ Apply(T, "convert_all", "-", <<>>, ConvertAllExcelFiles(Cur))

Reload(T, c) ==
  /\ c \in Configs
  /\ Apply(T, "reload", c, <<>>, ReloadConfig(Cur, c, TRUE))

GetSheet(T, c, s) ==
  /\ c \in Configs
  /\ Apply(T, "get_sheet", c, <<s>>, GetConfigSheet(Cur, c, s, TRUE))

GetValue(T, c, s, k) ==
  /\ c \in Configs
  /\ Apply(T, "get_value", c, <<s, k>>, GetConfigValue(Cur, c, s, k, TRUE))

ReloadAll(T, convert_all_excel_first) ==
  /\ clock <= T
  /\ Apply(T, "reload_all", "-",
           <<IF convert_all_excel_first THEN "convert_first" ELSE "reload_only">>,
           ReloadAllConfigs(Cur, convert_all_excel_first, TRUE))

CheckAll(T) ==
  /\ clock <= T
  /\ Apply(T, "check", "-", <<>>,
           Result(Cur, CheckAllConfigsUpToDate(Cur), NoEvents))

WatchPoll(T) ==
  /\ clock <= T
  /\ Apply(T, "watch", "-", <<>>, WatchAndReload(Cur))

\* One config is edited, compiled, loaded and read: its whole life cycle.
Next ==
  \/ \E x \in SourceContents : EditSource(MaxTime, "a", x)
  \/ RemoveSource("a")
  \/ \E ok \in BOOLEAN : EditArtifact(MaxTime, "a", ok)
  \/ RemoveArtifact("a")
  \/ Restart
  \/ Convert(MaxTime, "a")
  \/ ConvertAll(MaxTime)
  \/ Reload(MaxTime, "a")
  \/ \E s \in Sheets : GetSheet(MaxTime, "a", s)
  \/ \E s \in Sheets, k \in {"k1", "k2"} : GetValue(MaxTime, "a", s, k)
  \/ \E first \in BOOLEAN : ReloadAll(MaxTime, first)
  \/ CheckAll(MaxTime)
  \/ WatchPoll(MaxTime)

Spec == Init /\ [][Next]_vars

\* Two configs side by side, under the operations that work on the whole
\* directory.
NextTwo ==
  \/ \E c \in Configs, x \in {Good1, Mixed} : EditSource(MaxTimeTwo, c, x)
  \/ \E c \in Configs : RemoveSource(c)
  \/ \E c \in Configs : EditArtifact(MaxTimeTwo, c, TRUE)
  \/ \E c \in Configs : RemoveArtifact(c)
  \/ Restart
  \/ ConvertAll(MaxTimeTwo)
  \/ \E c \in Configs : Reload(MaxTimeTwo, c)
  \/ \E first \in BOOLEAN : ReloadAll(MaxTimeTwo, first)
  \/ CheckAll(MaxTimeTwo)
  \/ WatchPoll(MaxTimeTwo)

SpecTwo == Init /\ [][NextTwo]_vars

\* ----------------------------------------------------------------- threads
\* The same handlers, run by several threads of one process. Nothing in the
\* two classes takes a lock, so a call is a sequence of steps, one per access
\* to a file or to a shared dict, and the threads interleave between them.

\* A file that is open for writing: truncated or written in part. Executed
\* by another thread it is a module without the sheets still to be written
\* (ok), or it stops with a syntax error.
PartialArtifact(ok) ==
  [by |-> "partial", src |-> NoContent, ok |-> ok, sheets |-> EmptyMap,
   generated_at |-> 0]

\* The thread goes to the position pc, with the locals upd on top of its own.
Goto(t, pc, upd) ==
  threads' = [threads EXCEPT ![t] =
               [f \in DOMAIN IdleThread |->
                  IF f = "pc" THEN pc
                  ELSE IF f \in DOMAIN upd THEN upd[f] ELSE threads[t][f]]]

NoLocals == <<>>

\* The record of a call that a thread has finished.
Finished(t, ret) ==
  [op |-> threads[t].op, cfg |-> threads[t].cfg, args |-> <<threads[t].sheet>>,
   ret |-> ret, ev |-> NoEvents,
   prev |-> NoPrev]

\* reload_config returns ok: get_config goes on to read loaded_modules, a
\* reload call returns, the poll loop goes to sleep.
ReturnFromReload(t, ok) ==
  IF threads[t].op = "get_sheet"
  THEN /\ Goto(t, "read", NoLocals)
       /\ UNCHANGED last
  ELSE /\ threads' = [threads EXCEPT ![t] = IdleThread]
       /\ last' = Finished(t, IF threads[t].op = "reload" THEN Bool(ok) ELSE None)

\* convert_excel_file returns to its caller: reload_config goes on to the
\* load, the poll loop calls reload_config.
ReturnFromConvert(t) == Goto(t, threads[t].after, NoLocals)

\* A thread enters get_config_sheet, reload_config or one pass of the loop of
\* watch_and_reload.
Begin(t, op, c, s) ==
  /\ threads[t].pc = "idle"
  /\ Goto(t, IF op = "watch" THEN "watch_check" ELSE "reload_check",
          [op |-> op, cfg |-> c, sheet |-> s])
  /\ UNCHANGED <<excel, code, excel_modified_time, module_modified_time,
                 convert_times, loaded_modules, last_modified, clock, last>>

\* watch_and_reload, lines 299-305.
WatchCheck(t) ==
  /\ threads[t].pc = "watch_check"
  /\ IF SourceModified(Cur, threads[t].cfg)
     THEN /\ Goto(t, "convert_check", [after |-> "reload_check"])
          /\ UNCHANGED last
     ELSE ReturnFromReload(t, FALSE)
  /\ UNCHANGED <<excel, code, excel_modified_time, module_modified_time,
                 convert_times, loaded_modules, last_modified, clock>>

\* reload_config, lines 66-71.
ReloadCheck(t) ==
  /\ threads[t].pc = "reload_check"
  /\ IF SourceModified(Cur, threads[t].cfg)
     THEN Goto(t, "convert_check", [after |-> "load_exists"])
     ELSE Goto(t, "load_exists", NoLocals)
  /\ UNCHANGED <<excel, code, excel_modified_time, module_modified_time,
                 convert_times, loaded_modules, last_modified, clock, last>>

\* convert_excel_file, lines 114-128: the staleness test.
ConvertCheck(t) ==
  LET c == threads[t].cfg IN
  /\ threads[t].pc = "convert_check"
  /\ IF ~excel[c].exists \/ (~ExcelChanged(Cur, c) /\ ~ModuleChanged(Cur, c))
     THEN ReturnFromConvert(t)
     ELSE Goto(t, "validate", [excel_mtime |-> excel[c].mtime])
  /\ UNCHANGED <<excel, code, excel_modified_time, module_modified_time,
                 convert_times, loaded_modules, last_modified, clock, last>>

\* convert_excel_file, lines 135-156: validate, read, convert, generate.
\* source_read remembers the mtime of the file whose content was read.
Validate(t) ==
  LET c == threads[t].cfg
      content == excel[c].content
  IN
  /\ threads[t].pc = "validate"
  /\ IF ~excel[c].exists
        \/ ~ValidateDataBeforeConversion(content)
        \/ ConvertedData(content) = EmptyMap
     THEN ReturnFromConvert(t)
     ELSE Goto(t, "open_write",
               [artifact |-> GeneratePythonCode(content, ConvertedData(content), clock),
                source_read |-> excel[c].mtime])
  /\ UNCHANGED <<excel, code, excel_modified_time, module_modified_time,
                 convert_times, loaded_modules, last_modified, clock, last>>

\* convert_excel_file, line 160: open(code_file, 'w') truncates the artifact.
OpenWrite(T, t, ok) ==
  LET c == threads[t].cfg IN
  /\ threads[t].pc = "open_write"
  /\ clock < T
  /\ code' = [code EXCEPT ![c] = File(clock + 1, PartialArtifact(ok))]
  /\ clock' = clock + 1
  /\ Goto(t, "close_write", NoLocals)
  /\ UNCHANGED <<excel, excel_modified_time, module_modified_time,
                 convert_times, loaded_modules, last_modified, last>>

\* convert_excel_file, line 161: the text is written and the file closed.
CloseWrite(T, t) ==
  LET c == threads[t].cfg IN
  /\ threads[t].pc = "close_write"
  /\ clock < T
  /\ code' = [code EXCEPT ![c] = File(clock + 1, threads[t].artifact)]
  /\ clock' = clock + 1
  /\ Goto(t, "record", NoLocals)
  /\ UNCHANGED <<excel, excel_modified_time, module_modified_time,
                 convert_times, loaded_modules, last_modified, last>>

\* Faulty variant of Record: the source time recorded is read when the
\* record is made, after the content was read.
Record_SourceTimeAtRecord(t) ==
  LET c == threads[t].cfg IN
  /\ threads[t].pc = "record"
  /\ excel_modified_time' = Put(excel_modified_time, c, excel[c].mtime)
  /\ module_modified_time' =
       Put(module_modified_time, c, IF code[c].exists THEN code[c].mtime ELSE 0)
  /\ Goto(t, "save", NoLocals)
  /\ UNCHANGED <<excel, code, convert_times, loaded_modules, last_modified,
                 clock, last>>

\* convert_excel_file, lines 164-165: both timestamps are recorded.
Record(t) ==
  LET c == threads[t].cfg IN
  /\ threads[t].pc = "record"
  /\ excel_modified_time' = Put(excel_modified_time, c, threads[t].excel_mtime)
  /\ module_modified_time' =
       Put(module_modified_time, c, IF code[c].exists THEN code[c].mtime ELSE 0)
  /\ Goto(t, "save", NoLocals)
  /\ UNCHANGED <<excel, code, convert_times, loaded_modules, last_modified,
                 clock, last>>

\* convert_excel_file, line 166: _save_modified_times.
Save(t) ==
  /\ threads[t].pc = "save"
  /\ convert_times' = SaveModifiedTimes(excel_modified_time, module_modified_time)
  /\ ReturnFromConvert(t)
  /\ UNCHANGED <<excel, code, excel_modified_time, module_modified_time,
                 loaded_modules, last_modified, clock, last>>

\* reload_config, lines 74-79.
LoadExists(t) ==
  /\ threads[t].pc = "load_exists"
  /\ IF code[threads[t].cfg].exists
     THEN /\ Goto(t, "load_stat", NoLocals)
          /\ UNCHANGED last
     ELSE ReturnFromReload(t, FALSE)
  /\ UNCHANGED <<excel, code, excel_modified_time, module_modified_time,
                 convert_times, loaded_modules, last_modified, clock>>

\* _load_config_module, lines 40-43: stat and the unchanged test.
LoadStat(t) ==
  LET c == threads[t].cfg IN
  /\ threads[t].pc = "load_stat"
  /\ IF ~code[c].exists
     THEN ReturnFromReload(t, FALSE)
     ELSE IF LoadSkipped(Cur, c)
     THEN ReturnFromReload(t, c \in DOMAIN loaded_modules)
     ELSE /\ Goto(t, "load_exec", [mtime |-> code[c].mtime])
          /\ UNCHANGED last
  /\ UNCHANGED <<excel, code, excel_modified_time, module_modified_time,
                 convert_times, loaded_modules, last_modified, clock>>

\* _load_config_module, lines 46-48: the file is read and executed as it is
\* at this moment.
LoadExec(t) ==
  LET c == threads[t].cfg IN
  /\ threads[t].pc = "load_exec"
  /\ IF ~code[c].exists \/ ~code[c].content.ok
     THEN ReturnFromReload(t, FALSE)
     ELSE /\ Goto(t, "load_store", [module |-> code[c].content])
          /\ UNCHANGED last
  /\ UNCHANGED <<excel, code, excel_modified_time, module_modified_time,
                 convert_times, loaded_modules, last_modified, clock>>

\* _load_config_module, lines 51-52.
LoadStore(t) ==
  LET c == threads[t].cfg IN
  /\ threads[t].pc = "load_store"
  /\ loaded_modules' = Put(loaded_modules, c, threads[t].module)
  /\ last_modified' = Put(last_modified, c, threads[t].mtime)
  /\ ReturnFromReload(t, TRUE)
  /\ UNCHANGED <<excel, code, excel_modified_time, module_modified_time,
                 convert_times, clock>>

\* get_config, line 90, and get_config_sheet, lines 100-108.
Read(t) ==
  /\ threads[t].pc = "read"
  /\ threads' = [threads EXCEPT ![t] = IdleThread]
  /\ last' = Finished(t, GetConfigSheet(Cur, threads[t].cfg, threads[t].sheet, FALSE).ret)
  /\ UNCHANGED <<excel, code, excel_modified_time, module_modified_time,
                 convert_times, loaded_modules, last_modified, clock>>

\* Two threads call into the Registry for one config while its source is
\* edited.
NextThreads ==
  \/ \E x \in {Good1, Good2} : EditSource(MaxTimeThreads, "a", x)
  \/ \E t \in Threads, op \in {"get_sheet", "reload", "watch"} : Begin(t, op, "a", "s1")
  \/ \E t \in Threads : WatchCheck(t)
  \/ \E t \in Threads : ReloadCheck(t)
  \/ \E t \in Threads : ConvertCheck(t)
  \/ \E t \in Threads : Validate(t)
  \/ \E t \in Threads, ok \in BOOLEAN : OpenWrite(MaxTimeThreads, t, ok)
  \/ \E t \in Threads : CloseWrite(MaxTimeThreads, t)
  \/ \E t \in Threads : Record(t)
  \/ \E t \in Threads : Save(t)
  \/ \E t \in Threads : LoadExists(t)
  \/ \E t \in Threads : LoadStat(t)
  \/ \E t \in Threads : LoadExec(t)
  \/ \E t \in Threads : LoadStore(t)
  \/ \E t \in Threads : Read(t)

SpecThreads == Init /\ [][NextThreads]_vars

\* ------------------------------------------------------ generated literals
\* Strings are sequences of characters; the characters that matter to
\* _escape_string, and the letter n as an ordinary one.
QUOTE == "QUOTE"
BSLASH == "BSLASH"
LF == "LF"
CR == "CR"
TAB == "TAB"
RECURSIVE StringsOfLen(_)
StringsOfLen(n) ==
  IF n = 0 THEN {<<>>}
  ELSE {<<ch>> \o s : ch \in {QUOTE, BSLASH, LF, CR, TAB, "n"},
                       s \in StringsOfLen(n - 1)}

Strings == UNION {StringsOfLen(n) : n \in 0..MaxLen}

\* str.replace(ch, rep) for a one-character pattern.
RECURSIVE Replace(_, _, _)
Replace(s, ch, rep) ==
  IF s = <<>> THEN <<>>
  ELSE (IF Head(s) = ch THEN rep ELSE <<Head(s)>>) \o Replace(Tail(s), ch, rep)

\* _escape_string: the five replacements in the order of the code (quotes
\* first, then backslashes, then newline, carriage return and tab), and the
\* result between double quotes.
EscapeString(s) ==
  LET s1 == Replace(s, QUOTE, <<BSLASH, QUOTE>>)
      s2 == Replace(s1, BSLASH, <<BSLASH, BSLASH>>)
      s3 == Replace(s2, LF, <<BSLASH, "n">>)
      s4 == Replace(s3, CR, <<BSLASH, "r">>)
      s5 == Replace(s4, TAB, <<BSLASH, "t">>)
  IN  <<QUOTE>> \o s5 \o <<QUOTE>>

\* _dict_to_python_str, lines 416-420: one entry of a dict, a string key and
\* a string value, and the newline that ends its line.
EntryText(key, value) ==
  EscapeString(key) \o <<":", " ">> \o EscapeString(value) \o <<LF>>

\* exec_module stops on text that is not Python.
SyntaxError == [syntax_error |-> TRUE]

\* What Python reads for a backslash followed by ch inside a string literal.
Unescape(ch) ==
  IF ch = "n" THEN <<LF>>
  ELSE IF ch = "r" THEN <<CR>>
  ELSE IF ch = "t" THEN <<TAB>>
  ELSE IF ch = BSLASH THEN <<BSLASH>>
  ELSE IF ch = QUOTE THEN <<QUOTE>>
  ELSE IF ch = LF THEN <<>>
  ELSE <<BSLASH, ch>>

\* Python reading the inside of a double-quoted literal up to its closing
\* quote: the value read so far and the text after the literal.
RECURSIVE ReadBody(_, _)
ReadBody(text, acc) ==
  IF text = <<>> THEN SyntaxError
  ELSE IF Head(text) = QUOTE THEN [value |-> acc, rest |-> Tail(text)]
  ELSE IF Head(text) = BSLASH
  THEN IF Len(text) < 2 THEN SyntaxError
       ELSE ReadBody(SubSeq(text, 3, Len(text)), acc \o Unescape(text[2]))
  ELSE IF Head(text) \in {LF, CR} THEN SyntaxError
  ELSE ReadBody(Tail(text), acc \o <<Head(text)>>)

\* Python reading one string expression: adjacent literals are concatenated.
RECURSIVE ReadLiterals(_, _)
ReadLiterals(text, acc) ==
  IF text = <<>> \/ Head(text) # QUOTE THEN SyntaxError
  ELSE LET r == ReadBody(Tail(text), <<>>)
       IN  IF r = SyntaxError THEN SyntaxError
           ELSE IF r.rest # <<>> /\ Head(r.rest) = QUOTE
           THEN ReadLiterals(r.rest, acc \o r.value)
           ELSE [value |-> acc \o r.value, rest |-> r.rest]

\* Python reading the line of a dict entry "key": "value".
ReadEntry(text) ==
  LET k == ReadLiterals(text, <<>>)
  IN  IF k = SyntaxError THEN SyntaxError
      ELSE IF Len(k.rest) < 2 \/ SubSeq(k.rest, 1, 2) # <<":", " ">> THEN SyntaxError
      ELSE LET v == ReadLiterals(SubSeq(k.rest, 3, Len(k.rest)), <<>>)
           IN  IF v = SyntaxError THEN SyntaxError
               ELSE IF v.rest # <<LF>> THEN SyntaxError
               ELSE [key |-> k.value, value |-> v.value]

\* The generator writes the entry key: value and the loader reads it back.
RoundTrip(key, value) ==
  /\ last.op = "init"
  /\ key # <<>>
  /\ last' = [op |-> "roundtrip", cfg |-> "-", args |-> <<key, value>>,
              ret |-> [text |-> EntryText(key, value),
                       read |-> ReadEntry(EntryText(key, value))],
              ev |-> NoEvents,
              prev |-> NoPrev]
  /\ UNCHANGED <<excel, code, excel_modified_time, module_modified_time,
                 convert_times, loaded_modules, last_modified, clock, threads>>

NextText ==
  /\ last.op = "init"
  /\ \E key \in Strings, value \in Strings : RoundTrip(key, value)

\* The code generator and the loader on every short string key and value.
SpecText == Init /\ [][NextText]_vars

\* ------------------------------------------------------------------ sheets
\* A sheet cell by cell: the type tag of the key column, the type tag of one
\* value column, and the data rows (rows 4..N), each a key cell and a value
\* cell. A cell is blank (pandas reads it as NaN), a text or a number.
Blank == [blank |-> TRUE]
Text(s) == [text |-> s]
Number(n) == [num |-> n]

IsText(cell) == "text" \in DOMAIN cell

\* str(cell) and str.strip(); "  " stands for the texts made of white space.
Str(cell) == IF IsText(cell) THEN cell.text ELSE ToString(cell.num)
Strip(s) == IF s = "  " THEN "" ELSE s

Rows ==
  [key : {Blank, Text("  "), Text("k1"), Text("k2")},
   val : {Blank, Text("v1"), Number(7)}]

RECURSIVE RowsOfLen(_)
RowsOfLen(n) ==
  IF n = 0 THEN {<<>>}
  ELSE {<<row>> \o rows : row \in Rows, rows \in RowsOfLen(n - 1)}

SheetCells ==
  [key_type : {Blank, Text("string"), Text("int"), Text("float")},
   col_type : {Text("string"), Text("int"), Text("enum")},
   rows : UNION {RowsOfLen(n) : n \in 0..MaxRows}]

\* _validate_sheet, line 700: the key column without its blank cells.
KeysDropNa(sheet) ==
  LET keys == [i \in 1..Len(sheet.rows) |-> sheet.rows[i].key]
  IN  SelectSeq(keys, LAMBDA k : k # Blank)

\* _validate_sheet, lines 702-705.
EmptyKeyErrors(sheet) ==
  LET keys == KeysDropNa(sheet)
  IN  IF \E i \in 1..Len(keys) : Strip(Str(keys[i])) = ""
      THEN {"empty keys"} ELSE {}

\* _validate_sheet, lines 707-710.
DuplicateKeyErrors(sheet) ==
  LET keys == KeysDropNa(sheet)
  IN  IF \E i, j \in 1..Len(keys) : i < j /\ keys[i] = keys[j]
      THEN {"duplicate keys"} ELSE {}

\* Faulty variant of KeyTypeErrors: only a missing tag is an error.
KeyTypeErrors_AnyTag(sheet) ==
  IF sheet.key_type = Blank THEN {"key type missing"} ELSE {}

\* _validate_sheet, lines 726-734.
KeyTypeErrors(sheet) ==
  IF sheet.key_type = Blank
  THEN {"key type missing"}
  ELSE IF Strip(Str(sheet.key_type)) \notin {"string", "int"}
  THEN {"key type invalid"}
  ELSE {}

\* _validate_value_by_type: a text in an int column cannot be converted.
ValidateValueByType(value, col_type) ==
  IF value = Blank THEN {}
  ELSE IF Strip(Str(col_type)) = "int" /\ IsText(value) THEN {"not an int"}
  ELSE {}

\* _validate_sheet, lines 747-765.
ValueErrors(sheet) ==
  UNION {ValidateValueByType(sheet.rows[i].val, sheet.col_type) :
           i \in 1..Len(sheet.rows)}

\* _validate_sheet: the errors of a sheet that has its three header rows and
\* two columns.
ValidateSheet(sheet) ==
  IF sheet.rows = <<>>
  THEN {"at least 4 rows"}
  ELSE EmptyKeyErrors(sheet) \cup DuplicateKeyErrors(sheet)
         \cup KeyTypeErrors(sheet) \cup ValueErrors(sheet)

\* Faulty variant of ProcessValueByType: a cell of a column whose tag is not
\* a known one is kept as it is read.
ProcessValueByType_UnknownAsRead(value, col_type) ==
  IF value = Blank THEN None
  ELSE IF Strip(Str(col_type)) = "int"
  THEN IF IsText(value) THEN Number(0) ELSE value
  ELSE IF Strip(Str(col_type)) = "string"
  THEN Text(Strip(Str(value)))
  ELSE value

\* _process_value_by_type: None for a blank cell, whatever the column type.
ProcessValueByType(value, col_type) ==
  IF value = Blank THEN None
  ELSE IF Strip(Str(col_type)) = "int"
  THEN IF IsText(value) THEN Number(0) ELSE value
  ELSE Text(Strip(Str(value)))

\* _convert_sheet_to_dict, lines 199-214: the rows in order; a row whose key
\* is blank or '' is skipped, a later row replaces an earlier one of its key.
RECURSIVE ConvertRows(_, _, _)
ConvertRows(rows, col_type, result) ==
  IF rows = <<>> THEN result
  ELSE LET row == Head(rows)
           item_data == [attr |-> ProcessValueByType(row.val, col_type)]
       IN  IF row.key = Blank \/ row.key = Text("")
           THEN ConvertRows(Tail(rows), col_type, result)
           ELSE ConvertRows(Tail(rows), col_type, Put(result, row.key.text, item_data))

\* _convert_sheet_to_dict.
ConvertSheetToDict(sheet) ==
  IF sheet.rows = <<>> THEN EmptyMap
  ELSE ConvertRows(sheet.rows, sheet.col_type, EmptyMap)

\* The sheet as compile looks at it: its errors and its converted data.
SheetOfCells(sheet) ==
  [errors |-> Cardinality(ValidateSheet(sheet)),
   data |-> ConvertSheetToDict(sheet),
   cells |-> sheet]

\* A sheet nothing is wrong with, and a source file of that sheet.
PlainCells ==
  [key_type |-> Text("string"), col_type |-> Text("string"),
   rows |-> <<[key |-> Text("k1"), val |-> Text("v1")]>>]

PlainFile == Workbook(SheetOfCells(PlainCells), SheetOfCells(PlainCells))

\* A source file whose first sheet is the given one; its second sheet is
\* the one nothing is wrong with.
FileOfCells(sheet) == Workbook(SheetOfCells(sheet), SheetOfCells(PlainCells))

\* A human saves the source file of c with the given first sheet, over no
\* file or over the plain one.
SaveSheet(T, c, sheet) ==
  /\ ~excel[c].exists \/ excel[c].content = PlainFile
  /\ EditSource(T, c, FileOfCells(sheet))

\* A human saves the plain source file of c.
SavePlain(T, c) ==
  /\ ~excel[c].exists
  /\ EditSource(T, c, PlainFile)

\* One config whose sheet is edited cell by cell, compiled and loaded.
NextSheet ==
  \/ SavePlain(MaxTimeSheet, "a")
  \/ /\ ~excel["a"].exists \/ excel["a"].content = PlainFile
     /\ \E sheet \in SheetCells : SaveSheet(MaxTimeSheet, "a", sheet)
  \/ Convert(MaxTimeSheet, "a")
  \/ Reload(MaxTimeSheet, "a")

SpecSheet == Init /\ [][NextSheet]_vars

\* -------------------------------------------------------------- cell texts
\* The text of a cell as a sequence of characters. A list cell is written
\* with brackets, commas, blanks, the digit 1, the point, the letter e of an
\* exponent and the ordinary letter x; a number cell without the brackets and
\* commas; a json cell with braces, commas, blanks, the letter x and p, which
\* stands for one well-formed member "k": 1.
ListChars == {"[", "]", ",", " ", "1", ".", "e", "x"}
NumberChars == {" ", "1", ".", "e", "x"}
JsonChars == {"{", "}", ",", " ", "p", "x"}

\* The characters and the longest text of a cell of a column of a type.
CellChars(col_type) ==
  IF col_type = "list" THEN ListChars
  ELSE IF col_type = "json" THEN JsonChars
  ELSE NumberChars

CellLimit(col_type) ==
  IF col_type = "list" THEN MaxCell
  ELSE IF col_type = "json" THEN MaxJson
  ELSE MaxNumber

\* str.strip().
RECURSIVE StripText(_)
StripText(s) ==
  IF s = <<>> THEN s
  ELSE IF Head(s) = " " THEN StripText(Tail(s))
  ELSE IF s[Len(s)] = " " THEN StripText(SubSeq(s, 1, Len(s) - 1))
  ELSE s

\* str.split(sep): the pieces between the separators, in order.
RECURSIVE SplitText(_, _, _)
SplitText(s, sep, piece) ==
  IF s = <<>> THEN <<piece>>
  ELSE IF Head(s) = sep THEN <<piece>> \o SplitText(Tail(s), sep, <<>>)
  ELSE SplitText(Tail(s), sep, piece \o <<Head(s)>>)

Split(s, sep) == SplitText(s, sep, <<>>)

\* value.startswith(open) and value.endswith(close).
Bounded(s, open, close) == s # <<>> /\ Head(s) = open /\ s[Len(s)] = close

\* ch in s.
Contains(s, ch) == \E i \in 1..Len(s) : s[i] = ch

IsDigits(s) == s # <<>> /\ \A i \in 1..Len(s) : s[i] = "1"

\* digits, a point with digits on at least one side of it.
IsMantissa(s) ==
  \/ IsDigits(s)
  \/ \E i \in 1..Len(s) :
       /\ s[i] = "."
       /\ Len(s) > 1
       /\ \A j \in 1..Len(s) : j # i => s[j] = "1"

\* int(s) does not raise: digits, white space around them allowed.
IntParses(s) == IsDigits(StripText(s))

\* float(s) does not raise: a mantissa and an optional exponent.
FloatParses(s) ==
  LET t == StripText(s)
  IN  \/ IsMantissa(t)
      \/ \E i \in 1..Len(t) :
           /\ t[i] = "e"
           /\ IsMantissa(SubSeq(t, 1, i - 1))
           /\ IsDigits(SubSeq(t, i + 1, Len(t)))

\* The values coercion makes of a text: the number or the text it read, or
\* the default it falls back to.
IntOf(s) == [kind |-> "int", text |-> StripText(s)]
FloatOf(s) == [kind |-> "float", text |-> StripText(s)]
StrOf(s) == [kind |-> "str", text |-> s]
IntDefault == [kind |-> "int", text |-> <<"0">>]
FloatDefault == [kind |-> "float", text |-> <<"0", ".", "0">>]

\* _parse_list_value, lines 268-274 and 284-290: an item with a point is
\* tried as a float, one without as an int, and kept as text when that raises.
ParseItem(item) ==
  IF Contains(item, ".")
  THEN IF FloatParses(item) THEN FloatOf(item) ELSE StrOf(item)
  ELSE IF IntParses(item) THEN IntOf(item) ELSE StrOf(item)

\* items = [item.strip() for item in content.split(',')], each one parsed.
ParseItems(content) ==
  LET items == Split(content, ",")
  IN  [i \in 1..Len(items) |-> ParseItem(StripText(items[i]))]

\* _parse_list_value on a text cell.
ParseListValue(value) ==
  LET v == StripText(value)
      content == StripText(SubSeq(v, 2, Len(v) - 1))
  IN  IF Bounded(v, "[", "]")
      THEN IF content = <<>> THEN <<>> ELSE ParseItems(content)
      ELSE IF Contains(v, ",") THEN ParseItems(v)
      ELSE <<StrOf(v)>>

\* json.loads does not raise on a brace-bounded text: no member, or members
\* separated by commas.
JsonLoads(v) ==
  LET inner == SubSeq(v, 2, Len(v) - 1)
      members == Split(inner, ",")
  IN  \/ StripText(inner) = <<>>
      \/ \A i \in 1..Len(members) : StripText(members[i]) = <<"p">>

\* _parse_json_value on a text cell.
ParseJsonValue(value) ==
  LET v == StripText(value)
  IN  IF Bounded(v, "{", "}") /\ JsonLoads(v) THEN [kind |-> "dict", text |-> v] ELSE StrOf(v)

\* _process_value_by_type on a text cell.
ProcessText(value, col_type) ==
  IF col_type = "string" THEN StrOf(StripText(value))
  ELSE IF col_type = "int"
  THEN IF IntParses(value) THEN IntOf(value) ELSE IntDefault
  ELSE IF col_type = "float"
  THEN IF FloatParses(value) THEN FloatOf(value) ELSE FloatDefault
  ELSE IF col_type = "list" THEN [kind |-> "list", items |-> ParseListValue(value)]
  ELSE IF col_type = "json" THEN ParseJsonValue(value)
  ELSE StrOf(StripText(value))

\* Faulty variant of ValidateText: a json text that does not parse is only
\* warned about.
ValidateText_JsonWarns(value, col_type) ==
  LET v == StripText(value)
  IN  IF col_type = "int"
      THEN [errors |-> IF IntParses(value) THEN {} ELSE {"not an int"},
            warnings |-> {}]
      ELSE IF col_type = "float"
      THEN [errors |-> IF FloatParses(value) THEN {} ELSE {"not a float"},
            warnings |-> {}]
      ELSE IF col_type = "list"
      THEN [errors |-> {},
            warnings |-> IF Bounded(v, "[", "]") THEN {} ELSE {"list format"}]
      ELSE IF col_type = "json"
      THEN [errors |-> {},
            warnings |-> IF Bounded(v, "{", "}") /\ JsonLoads(v)
                         THEN {} ELSE {"json format"}]
      ELSE [errors |-> {}, warnings |-> {}]

\* _validate_value_by_type on a text cell: its errors and its warnings.
ValidateText(value, col_type) ==
  LET v == StripText(value)
  IN  IF col_type = "int"
      THEN [errors |-> IF IntParses(value) THEN {} ELSE {"not an int"},
            warnings |-> {}]
      ELSE IF col_type = "float"
      THEN [errors |-> IF FloatParses(value) THEN {} ELSE {"not a float"},
            warnings |-> {}]
      ELSE IF col_type = "list"
      THEN [errors |-> {},
            warnings |-> IF Bounded(v, "[", "]") THEN {} ELSE {"list format"}]
      ELSE IF col_type = "json"
      THEN IF ~Bounded(v, "{", "}")
           THEN [errors |-> {}, warnings |-> {"json format"}]
           ELSE [errors |-> IF JsonLoads(v) THEN {} ELSE {"json does not parse"},
                 warnings |-> {}]
      ELSE [errors |-> {}, warnings |-> {}]

\* The call record of a cell that is being typed.
Typed(col_type, value) ==
  [op |-> "type", cfg |-> "-", args |-> <<col_type, value>>,
   ret |-> None, ev |-> NoEvents,
   prev |-> NoPrev]

\* A human starts a cell in a column of the given type.
StartCell(col_type) ==
  /\ last.op = "init"
  /\ last' = Typed(col_type, <<>>)
  /\ UNCHANGED <<excel, code, excel_modified_time, module_modified_time,
                 convert_times, loaded_modules, last_modified, clock, threads>>

\* A human types one more character into the cell.
TypeChar(ch) ==
  /\ last.op = "type"
  /\ ch \in CellChars(last.args[1])
  /\ Len(last.args[2]) < CellLimit(last.args[1])
  /\ last' = Typed(last.args[1], last.args[2] \o <<ch>>)
  /\ UNCHANGED <<excel, code, excel_modified_time, module_modified_time,
                 convert_times, loaded_modules, last_modified, clock, threads>>

\* Validation and coercion of the cell, which is not empty, as compile
\* applies them to each cell of a column of the given type.
Coerce(col_type) ==
  /\ last.op = "type"
  /\ last.args[1] = col_type
  /\ last.args[2] # <<>>
  /\ last' = [op |-> "coerce", cfg |-> "-", args |-> last.args,
              ret |-> [value |-> ProcessText(last.args[2], col_type),
                       validation |-> ValidateText(last.args[2], col_type)],
              ev |-> NoEvents,
              prev |-> NoPrev]
  /\ UNCHANGED <<excel, code, excel_modified_time, module_modified_time,
                 convert_times, loaded_modules, last_modified, clock, threads>>

CellTypes == {"list", "int", "float", "json"}

NextCell ==
  \/ \E col_type \in CellTypes : StartCell(col_type)
  \/ \E ch \in ListChars \cup NumberChars \cup JsonChars : TypeChar(ch)
  \/ \E col_type \in CellTypes : Coerce(col_type)

\* Validation and coercion on every short text of a typed cell.
SpecCell == Init /\ [][NextCell]_vars

\* ----------------------------------------------------------------- startup
\* startup_event of the host, steps 2 to 4: convert every source file,
\* reload every artifact, then the gate; exit(1) when the gate is negative.
StartupEvent(S) ==
  LET results == ConvertAllExcelFiles(S)
      reload_results == ReloadAllConfigs(results.st, FALSE, TRUE)
      report == CheckAllConfigsUpToDate(reload_results.st)
  IN  Result(reload_results.st,
             [passed |-> report.all_up_to_date, exit |-> ~report.all_up_to_date],
             Join(results.ev, reload_results.ev))

\* The host runs its startup handler, in a process that has just started.
Startup(T) ==
  /\ last.op \in {"init", "restart"}
  /\ Apply(T, "startup", "-", <<>>, StartupEvent(Cur))

\* Two configs edited between the starts of the host.
NextStartup ==
  \/ \E c \in Configs, x \in {Good1, Mixed, Hollow, Quoted} :
       EditSource(MaxTimeStartup, c, x)
  \/ \E c \in Configs : RemoveSource(c)
  \/ \E c \in Configs : EditArtifact(MaxTimeStartup, c, FALSE)
  \/ Restart
  \/ Startup(MaxTimeStartup)

SpecStartup == Init /\ [][NextStartup]_vars

\* ------------------------------------------------------------------ claims
\* The calls that reach a config through the Registry.
RegistryOps == {"reload", "get_sheet", "get_value"}

\* Every operation of the program (as opposed to the environment's steps).
ProgramOps ==
  RegistryOps \cup {"convert", "convert_all", "reload_all", "check", "watch"}

\* What a mapping of loaded configs holds for a sheet, and for a key of it.
SheetOf(loaded, c, s) ==
  IF c \in DOMAIN loaded THEN Get(loaded[c].sheets, s, None) ELSE None

ValueOf(loaded, c, s, k) ==
  IF SheetOf(loaded, c, s) = None THEN None ELSE Get(SheetOf(loaded, c, s), k, None)

\* Nothing on disk and no record of the converter changes in the step.
FilesAndRecordsUnchanged ==
  UNCHANGED <<excel, code, excel_modified_time, module_modified_time, convert_times>>

\* The artifact of c is there, executes, and is newer than the last load of
\* this process (or nothing was loaded yet): a load is due.
LoadDue(c) ==
  /\ code[c].exists
  /\ c \notin DOMAIN last_modified \/ code[c].mtime > last_modified[c]

\* The step is a Registry call on a config whose source failed validation.
FailedValidationStep ==
  /\ last'.op \in RegistryOps
  /\ last'.cfg \in last'.ev.invalid

C2_ReloadFalseOnInvalid ==
  (last.op = "reload" /\ last.cfg \in last.ev.invalid) => last.ret = Bool(FALSE)

\* Every sheet of a source content but the reserved one has no error.
EverySheetPassed(content) == \A s \in Sheets : content[s].errors = 0

\* The sheets of a source content that hold data, with their data.
DataSheets(content) ==
  [s \in {x \in Sheets : content[x].data # EmptyMap} |-> content[s].data]

\* C3: in every reachable state an artifact written by compile was generated
\* from a source file whose every non-reserved sheet passed validation, and
\* holds every data sheet of that source (never a part of them).
C3_ArtifactFromValidSourceOnly ==
  \A c \in Configs :
    (code[c].exists /\ code[c].content.by = "compile") =>
      /\ EverySheetPassed(code[c].content.src)
      /\ code[c].content.sheets = DataSheets(code[c].content.src)

\* Compile was called on a source with one valid and one invalid sheet and
\* the artifact of the previous, valid source is still there.
C3_Witness ==
  /\ last.op = "convert"
  /\ last.cfg \in last.ev.invalid
  /\ \E s \in Sheets : excel[last.cfg].content[s].errors = 0
  /\ \E s \in Sheets : excel[last.cfg].content[s].errors > 0
  /\ code[last.cfg].exists
  /\ code[last.cfg].content.by = "compile"

\* The staleness test of compile, from the state before the call.
NeedsRecompile(c) ==
  \/ c \notin DOMAIN excel_modified_time
  \/ excel[c].mtime > excel_modified_time[c]
  \/ ~code[c].exists
  \/ code[c].mtime > module_modified_time[c]

\* C4: convert_excel_file goes on to validate and compile exactly when there
\* is no record for the config, or the source is newer than the recorded
\* source time, or the artifact is missing or newer than the recorded
\* artifact time; otherwise it changes no file and no record.
C4_RecompileDecision ==
  [][last'.op = "convert" =>
       LET c == last'.cfg IN
       /\ (c \in last'.ev.attempted) <=> NeedsRecompile(c)
       /\ c \notin last'.ev.attempted =>
            /\ FilesAndRecordsUnchanged
            /\ last'.ret = None]_vars

\* Compile was called on a config that has a record and skipped it.
C4_Witness ==
  /\ last.op = "convert"
  /\ last.cfg \notin last.ev.attempted
  /\ last.cfg \in DOMAIN excel_modified_time
  /\ code[last.cfg].exists

\* The source of c is there, passes validation and holds data: a compile of
\* it would write the artifact.
Compilable(c) ==
  /\ excel[c].exists
  /\ EverySheetPassed(excel[c].content)
  /\ DataSheets(excel[c].content) # EmptyMap

\* C5: after a Registry call on a config whose source can be compiled, the
\* artifact is there and is not newer than the recorded artifact time: an
\* artifact edited or deleted out-of-band has been regenerated by the call.
C5_RegistryRegeneratesArtifact ==
  (last.op \in RegistryOps /\ Compilable(last.cfg)) =>
     /\ code[last.cfg].exists
     /\ last.cfg \in DOMAIN module_modified_time
     /\ code[last.cfg].mtime <= module_modified_time[last.cfg]

\* The source and the artifact of c are as the last successful compile left
\* them, and this process has not loaded c yet.
UnchangedSinceCompile(c) ==
  /\ excel[c].exists
  /\ code[c].exists
  /\ c \in DOMAIN excel_modified_time
  /\ excel[c].mtime = excel_modified_time[c]
  /\ code[c].mtime = module_modified_time[c]

LastLoadedMtime(c) == Get(last_modified, c, 0)

\* C7: a Registry call executes the artifact exactly when the artifact is
\* there with an mtime greater than last_loaded_mtime (zero when the process
\* has no entry, so the first call of a process always loads); a load that
\* succeeds sets last_loaded_mtime to the artifact's mtime and installs the
\* artifact; without a successful load both process-local maps are unchanged.
C7_LoadExactlyWhenNewer ==
  [][last'.op \in RegistryOps =>
       LET c == last'.cfg IN
       /\ (c \in last'.ev.loadexec) <=>
            (code'[c].exists /\ code'[c].mtime > LastLoadedMtime(c))
       /\ IF c \in last'.ev.loadexec /\ code'[c].content.ok
          THEN /\ last_modified' = Put(last_modified, c, code'[c].mtime)
               /\ loaded_modules' = Put(loaded_modules, c, code'[c].content)
          ELSE UNCHANGED <<loaded_modules, last_modified>>]_vars

\* A Registry call on a config this process had loaded before skipped the
\* load of its unchanged artifact.
C7_Witness ==
  /\ last.op \in RegistryOps
  /\ last.cfg \in DOMAIN last_modified
  /\ code[last.cfg].exists
  /\ last.ev.loadexec = {}
  /\ last.ev.written = {}
  /\ last.prev.restart = FALSE

\* C8: a compile or a reload issued right after a successful compile of the
\* same config leaves the artifact (content and mtime), both recorded
\* timestamps and the record file unchanged.
C8_CompileIdempotent ==
  [][\A c \in Configs :
       (c \in last.ev.written /\ last'.op \in {"convert", "reload"} /\ last'.cfg = c) =>
          /\ FilesAndRecordsUnchanged
          /\ last'.ev.attempted = {}]_vars

\* A compile of the config came right after a successful compile of it.
C8_Witness ==
  /\ last.op \in {"convert", "reload"}
  /\ last.cfg \in last.prev.written
  /\ last.ev.written = {}
  /\ code[last.cfg].exists

\* The source of c is newer than its record, or there is no record.
SourceStale(c) ==
  c \notin DOMAIN excel_modified_time \/ excel[c].mtime > excel_modified_time[c]

\* The artifact of c is newer than its record.
ArtifactStale(c) ==
  c \notin DOMAIN module_modified_time \/ code[c].mtime > module_modified_time[c]

\* The artifact of c is newer than what this process has loaded.
ReloadPending(c) ==
  c \notin DOMAIN last_modified \/ code[c].mtime > last_modified[c]

\* C9: check_all_configs_up_to_date answers all_up_to_date = true only if
\* every source file has an artifact, is not stale against either recorded
\* time, has no reload pending, and no artifact is without its source; and
\* then up_to_date_configs equals total_configs, the number of source files.
C9_AggregateUpToDate ==
  (last.op = "check" /\ last.ret.all_up_to_date) =>
     /\ \A c \in Configs :
          excel[c].exists =>
            /\ code[c].exists
            /\ ~SourceStale(c)
            /\ ~ArtifactStale(c)
            /\ ~ReloadPending(c)
            /\ last.ret.details[c] = "up_to_date"
     /\ \A c \in Configs : code[c].exists => excel[c].exists
     /\ last.ret.total_configs = Cardinality({c \in Configs : excel[c].exists})
     /\ last.ret.up_to_date_configs = last.ret.total_configs

\* check_all_configs_up_to_date passed with two source files, both compiled and loaded.
C9_Witness ==
  /\ last.op = "check"
  /\ last.ret.all_up_to_date
  /\ last.ret.total_configs = 2

\* The artifact of c is there and its source is not.
Orphaned(c) == code[c].exists /\ ~excel[c].exists

AccessorOps == {"get_sheet", "get_value"}

\* What an accessor call must return given the mapping loaded after it.
ReadOf(loaded, call) ==
  IF call.op = "get_sheet"
  THEN SheetOf(loaded, call.cfg, call.args[1])
  ELSE ValueOf(loaded, call.cfg, call.args[1], call.args[2])

\* The recompile or the load triggered by the call failed.
TriggeredStepFailed(call) ==
  \/ call.cfg \in call.ev.invalid
  \/ call.cfg \in call.ev.loadexec /\ call.cfg \notin DOMAIN loaded_modules'

\* C11 as stated: getValue and getSheet never raise, and return None for a
\* config that has no source and no artifact, for a sheet that the loaded
\* config does not have and for a key that the loaded sheet does not have.
C11_AsStated ==
  [][last'.op \in AccessorOps =>
       LET c == last'.cfg IN
       /\ last'.ret # Raised
       /\ (~excel[c].exists /\ ~code[c].exists) => last'.ret = None
       /\ last'.ret = ReadOf(loaded_modules', last')]_vars

\* C11, amended: getValue and getSheet never raise; they return what the
\* mapping loaded after the call holds for the sheet (and key), None when
\* the config is not loaded, the sheet is not in it or the key is not in the
\* sheet, also when the recompile or the load they trigger fails (a failed
\* recompile still lets the existing artifact load and be read). A config
\* without source and artifact reads as None when this process has no
\* mapping of it; a mapping loaded before the files were removed is kept and
\* still read.
C11_AccessorsSignalAbsence ==
  [][last'.op \in AccessorOps =>
       LET c == last'.cfg IN
       /\ last'.ret # Raised
       /\ last'.ret = ReadOf(loaded_modules', last')
       /\ (~excel[c].exists /\ ~code[c].exists) =>
            /\ UNCHANGED <<loaded_modules, last_modified>>
            /\ c \notin DOMAIN loaded_modules => last'.ret = None
       /\ (TriggeredStepFailed(last') /\ c \notin DOMAIN loaded_modules') =>
            last'.ret = None]_vars

\* A read whose recompile failed validation and whose load of a broken
\* artifact raised returned None.
C11_Witness ==
  /\ last.op = "get_value"
  /\ last.cfg \in last.ev.invalid
  /\ last.cfg \in last.ev.loadexec
  /\ last.cfg \notin DOMAIN loaded_modules
  /\ last.ret = None

\* C12: the mapping returned by reloadAll has exactly one entry for every
\* source file of the directory, one without an artifact included, and the
\* entry is false for a config whose reload failed.
C12_ReloadAllCoversSources ==
  last.op = "reload_all" =>
     /\ DOMAIN last.ret = {c \in Configs : excel[c].exists}
     /\ \A c \in DOMAIN last.ret :
          last.ret[c] = (c \in DOMAIN loaded_modules /\ code[c].exists)

\* The thread has passed the staleness test of convert_excel_file and has
\* not yet returned from it: its compile is in flight.
InCompile(t) ==
  threads[t].pc \in {"validate", "open_write", "close_write", "record", "save"}

\* C13: for one config at most one compile is in flight at a time, whatever
\* the interleaving of the threads that read, reload or poll it.
C13_OneCompileInFlight ==
  \A t1, t2 \in Threads :
    (t1 # t2 /\ threads[t1].cfg = threads[t2].cfg) =>
       ~(InCompile(t1) /\ InCompile(t2))

\* C14: under any interleaving the mapping a thread loads is a completely
\* written artifact, never a file another thread is still writing, and the
\* sheet a read returns is the sheet of that artifact.
C14_ReadsSeeWholeArtifact ==
  /\ \A c \in DOMAIN loaded_modules : loaded_modules[c].by = "compile"
  /\ (last.op = "get_sheet" /\ last.cfg \in DOMAIN loaded_modules) =>
        /\ last.args[1] \in DOMAIN loaded_modules[last.cfg].sheets
        /\ last.ret = loaded_modules[last.cfg].sheets[last.args[1]]

\* The calls that take a config through its life cycle: the Registry calls
\* on it and a pass of the poll loop.
LifeCycleStep(c) ==
  \/ last'.op \in RegistryOps /\ last'.cfg = c
  \/ last'.op = "watch"

ArtifactText(artifact) ==
  [generated_at |-> artifact.generated_at, sheets |-> artifact.sheets]

\* C16: when compile regenerates an artifact from the same config name and
\* the same compiled sheet data as the artifact it replaces, the text it
\* writes is identical to the text replaced, whatever the time of the call.
C16_GeneratorDeterministic ==
  [][\A c \in Configs :
       (/\ c \in last'.ev.written
        /\ code[c].exists
        /\ code[c].content.by = "compile"
        /\ code'[c].content.sheets = code[c].content.sheets) =>
          ArtifactText(code'[c].content) = ArtifactText(code[c].content)]_vars

\* C17: every string key and string value, double quotes, backslashes,
\* newlines, carriage returns and tabs included, is read back from the
\* generated entry as exactly the original string.
C17_StringsRoundTrip ==
  last.op = "roundtrip" =>
     last.ret.read = [key |-> last.args[1], value |-> last.args[2]]

\* The cells of the first sheet of a source content.
CellsOf(content) == content["s1"].cells

\* The artifact of c was written by compile.
Compiled(c) == code[c].exists /\ code[c].content.by = "compile"

\* C18: in a compiled sheet the attribute mapping of a row whose value cell
\* is blank has no entry for that column, whatever the column's type: no
\* None, no empty string, no zero stands in for it.
C18_BlankCellOmitted ==
  \A c \in Configs :
    Compiled(c) =>
      LET cells == CellsOf(code[c].content.src)
          data == Get(code[c].content.sheets, "s1", EmptyMap)
      IN  \A i \in 1..Len(cells.rows) :
            (cells.rows[i].val = Blank /\ IsText(cells.rows[i].key)
               /\ cells.rows[i].key.text \in DOMAIN data) =>
              "attr" \notin DOMAIN data[cells.rows[i].key.text]

\* The key column of the first sheet is declared with a tag other than
\* string or int, or with none.
BadKeyTag(content) == CellsOf(content).key_type \notin {Text("string"), Text("int")}

\* C19: a compile or reload of a source whose key column is declared with a
\* tag other than string or int, or with none, fails validation and writes
\* nothing: the artifact, both recorded timestamps and the record file are
\* the same before and after, and no artifact ever comes from such a source.
C19_KeyTypeBlocksCompile ==
  [][last'.op \in {"convert", "reload"} =>
       LET c == last'.cfg IN
       /\ (excel[c].exists /\ BadKeyTag(excel[c].content)) =>
            /\ c \notin last'.ev.written
            /\ c \in last'.ev.attempted => c \in last'.ev.invalid
            /\ FilesAndRecordsUnchanged
       /\ (code'[c].exists /\ code'[c].content.by = "compile") =>
            ~BadKeyTag(code'[c].content.src)]_vars

\* Compile refused a sheet whose only fault is a key column declared float,
\* and the artifact of the earlier source is still there.
C19_Witness ==
  /\ last.op = "convert"
  /\ last.cfg \in last.ev.invalid
  /\ CellsOf(excel[last.cfg].content).key_type = Text("float")
  /\ ValidateSheet(CellsOf(excel[last.cfg].content)) = {"key type invalid"}
  /\ Compiled(last.cfg)
  /\ code[last.cfg].content.src = PlainFile

\* C20: a compiled sheet has exactly one entry per data row of its source
\* sheet, each under a key that is not empty: a row with an empty key cell
\* or a repeated key blocks the compile, no row is dropped or merged.
C20_OneEntryPerDataRow ==
  \A c \in Configs :
    Compiled(c) =>
      LET cells == CellsOf(code[c].content.src)
          data == Get(code[c].content.sheets, "s1", EmptyMap)
      IN  /\ Cardinality(DOMAIN data) = Len(cells.rows)
          /\ \A i \in 1..Len(cells.rows) :
               /\ IsText(cells.rows[i].key)
               /\ Strip(cells.rows[i].key.text) # ""
               /\ cells.rows[i].key.text \in DOMAIN data

\* The type tags a value column may carry (_validate_sheet, valid_types).
ValidTypes == {"string", "int", "float", "bool", "list", "json", "yaml"}

\* The first sheet of a source content with its value column declared string.
AsStringColumn(cells) == [cells EXCEPT !.col_type = Text("string")]

\* C23: a value column whose tag is outside the valid set brings no error of
\* its own, for the tag or for a cell: the sheet is refused exactly when the
\* same sheet with the column declared string is refused, otherwise the
\* compile goes on and writes, for that sheet, what the string column would
\* give (the trimmed text of every non-empty cell).
C23_UnknownTagCompilesAsString ==
  [][(/\ last'.op \in {"convert", "reload"}
      /\ excel[last'.cfg].exists
      /\ Strip(Str(CellsOf(excel[last'.cfg].content).col_type)) \notin ValidTypes) =>
       LET c == last'.cfg
           cells == CellsOf(excel[c].content)
       IN  /\ ValueErrors(cells) = {}
           /\ ValidateSheet(cells) = ValidateSheet(AsStringColumn(cells))
           /\ c \in last'.ev.attempted =>
                /\ c \in last'.ev.invalid <=> ValidateSheet(AsStringColumn(cells)) # {}
                /\ c \in last'.ev.written <=> ValidateSheet(AsStringColumn(cells)) = {}
           /\ c \in last'.ev.written =>
                Get(code'[c].content.sheets, "s1", EmptyMap)
                  = ConvertSheetToDict(AsStringColumn(cells))]_vars

\* A sheet whose value column is tagged enum was compiled, and its number
\* cell came out as the text of the number.
C23_Witness ==
  /\ last.op = "convert"
  /\ last.cfg \in last.ev.written
  /\ Compiled(last.cfg)
  /\ CellsOf(code[last.cfg].content.src).col_type = Text("enum")
  /\ "s1" \in DOMAIN code[last.cfg].content.sheets
  /\ \E k \in DOMAIN code[last.cfg].content.sheets["s1"] :
       code[last.cfg].content.sheets["s1"][k].attr = Text("7")

\* The last call coerced a cell of a column of the given type.
CoercedAs(col_type) == last.op = "coerce" /\ last.args[1] = col_type

\* An item parsed as int if possible, else as float if possible, else text.
IntThenFloat(item) ==
  IF IntParses(item) THEN IntOf(item)
  ELSE IF FloatParses(item) THEN FloatOf(item)
  ELSE StrOf(item)

\* A comma-separated text without any bracket.
BareList(v) == Contains(v, ",") /\ ~Contains(v, "[") /\ ~Contains(v, "]")

\* C21: a bracketed list cell coerces to one element per comma-separated
\* item, in order, each item trimmed and parsed as int if possible, else as
\* float if possible, else kept as text; a bare comma-separated cell gives
\* the list of its bracketed form.
C21_ListCoercion ==
  CoercedAs("list") =>
    LET v == StripText(last.args[2])
        content == StripText(SubSeq(v, 2, Len(v) - 1))
        items == Split(content, ",")
        list == last.ret.value.items
    IN  /\ (Bounded(v, "[", "]") /\ content # <<>>) =>
             /\ Len(list) = Len(items)
             /\ \A i \in 1..Len(items) : list[i] = IntThenFloat(StripText(items[i]))
        /\ BareList(v) => list = ParseListValue(<<"[">> \o v \o <<"]">>)

\* A list text with an opening bracket and no closing one, or the reverse.
Malformed(v) ==
  /\ v # <<>>
  /\ (Head(v) = "[") # (v[Len(v)] = "]")

\* C22: a list cell with malformed brackets, with or without commas in it,
\* coerces to the one-element list of its text, and validation gives it a
\* warning and no error.
C22_MalformedListKeptWhole ==
  (CoercedAs("list") /\ Malformed(StripText(last.args[2]))) =>
    /\ last.ret.value.items = <<StrOf(StripText(last.args[2]))>>
    /\ last.ret.validation.errors = {}
    /\ last.ret.validation.warnings # {}

\* C30: validation and coercion agree on a cell that does not parse: for a
\* text of an int or float column validation reports an error exactly when
\* coercion falls back to the default, for a brace-bounded text of a json
\* column exactly when coercion leaves the text as it is; a cell that passed
\* validation is never coerced to a fallback default.
C30_ValidatorAgreesWithCoercion ==
  last.op = "coerce" =>
    LET col_type == last.args[1]
        v == StripText(last.args[2])
        value == last.ret.value
        errors == last.ret.validation.errors
    IN  /\ col_type = "int" => (errors # {} <=> value = IntDefault)
        /\ col_type = "float" => (errors # {} <=> value = FloatDefault)
        /\ (col_type = "json" /\ Bounded(v, "{", "}")) =>
             (errors # {} <=> value = StrOf(v))
        /\ errors = {} => value \notin {IntDefault, FloatDefault}

\* A brace-bounded json text that does not parse was reported as an error
\* and left as text.
C30_Witness ==
  /\ last.op = "coerce"
  /\ last.args[1] = "json"
  /\ Bounded(StripText(last.args[2]), "{", "}")
  /\ Contains(last.args[2], "x")
  /\ last.ret.value = StrOf(StripText(last.args[2]))
  /\ last.ret.validation.errors # {}

\* C24: the record file is rewritten by every call that compiled a config,
\* reading a saved record gives back both timestamp maps, and a restart
\* leaves every config with the two timestamps it had, those of its last
\* successful compile.
C24_RecordSurvivesRestart ==
  [][/\ last'.ev.written # {} =>
          convert_times' = SaveModifiedTimes(excel_modified_time', module_modified_time')
     /\ LoadModifiedTimes(SaveModifiedTimes(excel_modified_time', module_modified_time'))
          = [emt |-> excel_modified_time', mmt |-> module_modified_time']
     /\ last'.op = "restart" =>
          /\ excel_modified_time' = excel_modified_time
          /\ module_modified_time' = module_modified_time]_vars

\* A process restarted after a compile and knows the timestamps the compile
\* recorded.
C24_Witness ==
  /\ last.op = "restart"
  /\ \E c \in DOMAIN excel_modified_time :
       /\ excel_modified_time[c] > 0
       /\ module_modified_time[c] > 0
       /\ convert_times[c] = [excel |-> excel_modified_time[c],
                              module |-> module_modified_time[c]]

\* Every source file passes validation and yields at least one sheet of data.
EverySourceCompilable ==
  \A c \in Configs :
    excel[c].exists =>
      /\ ValidateDataBeforeConversion(excel[c].content)
      /\ ConvertedData(excel[c].content) # EmptyMap

SomeSourceInvalid ==
  \E c \in Configs :
    excel[c].exists /\ ~ValidateDataBeforeConversion(excel[c].content)

SomeArtifactOrphaned == \E c \in Configs : code[c].exists /\ ~excel[c].exists

\* C25: the startup sequence compile-all, reload-all, check passes the gate
\* when every source file is valid and yields at least one non-empty sheet
\* and no artifact is orphaned; when a source is invalid or an artifact is
\* orphaned the gate is negative and the host terminates.
C25_StartupGate ==
  [][last'.op = "startup" =>
       /\ (EverySourceCompilable /\ ~SomeArtifactOrphaned) => last'.ret.passed
       /\ (SomeSourceInvalid \/ SomeArtifactOrphaned) =>
            (~last'.ret.passed /\ last'.ret.exit)]_vars

\* C26: a config that check_all_configs_up_to_date has just reported up to
\* date is left alone by a reload issued right after it: no compile and no
\* load, the artifact, the records, the record file, last_modified and the
\* loaded mapping are unchanged, and reload returns true.
C26_CheckAgreesWithReload ==
  [][(last'.op = "reload" /\ last'.cfg \in last'.prev.up_to_date) =>
       /\ FilesAndRecordsUnchanged
       /\ UNCHANGED <<loaded_modules, last_modified>>
       /\ last'.ev = NoEvents
       /\ last'.ret = Bool(TRUE)]_vars

\* A reload right after a check that reported its config up to date.
C26_Witness ==
  /\ last.op = "reload"
  /\ last.cfg \in last.prev.up_to_date
  /\ last.cfg \in DOMAIN loaded_modules
  /\ last.ret = Bool(TRUE)

\* The two recorded timestamps of c, zero where there is none.
RecordOf(emt, mmt, c) == [excel |-> Get(emt, c, 0), module |-> Get(mmt, c, 0)]

\* C27: the two recorded timestamps of a config are set together, and only
\* by a step that has just written the config's artifact: a skipped compile,
\* a failed validation, a source without data, a load, a read, a restart and
\* check_all_configs_up_to_date leave them as they are. Right after such a
\* step the recorded artifact time is the artifact's mtime and the recorded
\* source time is the source's mtime the compile started with.
C27_RecordFrame ==
  [][\A c \in Configs :
       /\ DOMAIN excel_modified_time' = DOMAIN module_modified_time'
       /\ RecordOf(excel_modified_time', module_modified_time', c)
            # RecordOf(excel_modified_time, module_modified_time, c)
            => c \in last'.ev.written
       /\ c \in last'.ev.written =>
            /\ module_modified_time'[c] = code'[c].mtime
            /\ excel_modified_time'[c] = excel[c].mtime]_vars

\* A recompile replaced the record of an earlier compile.
C27_Witness ==
  /\ last.cfg \in last.ev.written
  /\ last.op \in {"convert", "reload"}
  /\ excel_modified_time[last.cfg] = excel[last.cfg].mtime
  /\ excel_modified_time[last.cfg] > 1
  /\ module_modified_time[last.cfg] = code[last.cfg].mtime

\* C28: a compile records as source time the mtime it read before it read
\* the content, so the recorded time is never newer than the mtime of the
\* content it compiled; a source saved with a later mtime while the compile
\* ran is newer than the record, and the next staleness test asks for a
\* recompile. A source the record calls current is the one that was compiled.
C28_EditDuringCompileNotLost ==
  [][\A t \in Threads :
       (threads[t].pc = "record" /\ threads'[t].pc = "save") =>
         LET c == threads[t].cfg
             recorded == excel_modified_time'[c]
         IN  /\ recorded <= threads[t].source_read
             /\ excel[c].mtime > threads[t].source_read =>
                  /\ excel[c].mtime > recorded
                  /\ SourceModified([Cur EXCEPT !.emt = excel_modified_time'], c)
             /\ excel[c].mtime = recorded =>
                  excel[c].content = threads[t].artifact.src]_vars

\* A compile has recorded its source time after the source was saved again
\* behind its back: the record is older than the source.
C28_Witness ==
  \E t \in Threads :
    LET c == threads[t].cfg IN
    /\ threads[t].pc = "save"
    /\ excel[c].mtime > threads[t].source_read
    /\ excel[c].content # threads[t].artifact.src
    /\ excel_modified_time[c] = threads[t].excel_mtime
    /\ SourceModified(Cur, c)

\* The call ran exec_module on an artifact that does not execute.
LoadFailed(call) ==
  /\ call.cfg \in call.ev.loadexec
  /\ ~code'[call.cfg].content.ok

\* C29: when the load of the artifact fails, reload returns false, the
\* mapping loaded before stays in place and is what getValue and getSheet
\* read, and the time of the last load is not advanced, so that the next
\* reload runs the load again; in every state a config has a loaded mapping
\* exactly when it has a time of last load.
C29_FailedLoadKeepsMapping ==
  [][/\ DOMAIN loaded_modules' = DOMAIN last_modified'
     /\ (last'.op \in {"reload"} \cup AccessorOps /\ LoadFailed(last')) =>
          LET c == last'.cfg IN
          /\ UNCHANGED <<loaded_modules, last_modified>>
          /\ last'.op = "reload" => last'.ret = Bool(FALSE)
          /\ last'.op \in AccessorOps =>
               last'.ret = ReadOf(loaded_modules, last')
          /\ code'[c].exists
          /\ ~LoadSkipped([Cur EXCEPT !.code = code',
                                      !.lastmod = last_modified'], c)]_vars

\* A reload ran on a broken artifact of a config that was loaded before: it
\* returned false and the older mapping is still the one loaded.
C29_Witness ==
  /\ last.op = "reload"
  /\ last.cfg \in last.ev.loadexec
  /\ ~code[last.cfg].content.ok
  /\ last.ret = Bool(FALSE)
  /\ last.cfg \in DOMAIN loaded_modules
  /\ last_modified[last.cfg] < code[last.cfg].mtime

====
